---- MODULE Spec2Model ----
(***************************************************************************)
(* Model of watchman's root registry and root lifecycle                    *)
(* (root/watchlist.cpp, root/init.cpp, watchman_trigger.h).                *)
(*                                                                         *)
(* Paths and file names are sequences of one-character strings, so that    *)
(* the byte-offset prefix matching of w_find_enclosing_root is computed    *)
(* as the code computes it.                                                *)
(***************************************************************************)
EXTENDS Integers, Sequences, FiniteSets, TLC

\* ------------------------------------------------------------------ bounds

\* number of w_root_t objects the process may allocate in one run
MaxRoots == 2
\* longest file name / root path drawn for the prefix matching
MaxLen == 5
\* references one thread may hold on one root at a time
MaxHold == 2
\* seconds the shutdown drain is followed for
MaxTime == 5
\* process ids the operating system hands to trigger children
MaxPid == 3
\* entries of the "watched" array of a state document read at startup
MaxEntries == 1
\* trigger definitions per entry of such a document
MaxTriggers == 2

\* time(NULL) > started + 3, watchlist.cpp
DrainTimeout == 3
\* interval = 100, watchlist.cpp
DrainInterval == 100
\* MIN(interval * 2, 1000000), watchlist.cpp
DrainIntervalCap == 1000000

Threads == {"t1", "t2"}
RootIds == 1 .. MaxRoots
NoRoot == 0

\* ------------------------------------------------------------------ strings

\* the separator and one other byte: enough for equal, enclosing, nested and
\* prefix-but-not-component-aligned names
Chars == {"/", "a"}

RECURSIVE StringsUpTo(_)
StringsUpTo(n) ==
    IF n = 0 THEN {<< >>}
    ELSE LET S == StringsUpTo(n - 1)
         IN  S \cup {Append(s, c) : s \in {x \in S : Len(x) = n - 1}, c \in Chars}

\* an absolute file name: starts with a separator
FileNames == {s \in StringsUpTo(MaxLen) : Len(s) >= 1 /\ s[1] = "/"}

\* a canonical root path: absolute, no empty component, no trailing separator
\* (the filesystem root "/" itself excepted)
IsCanonical(s) ==
    /\ Len(s) >= 1
    /\ s[1] = "/"
    /\ \A i \in 1 .. Len(s) - 1 : ~(s[i] = "/" /\ s[i + 1] = "/")
    /\ (Len(s) > 1 => s[Len(s)] # "/")

RootPaths == {s \in FileNames : IsCanonical(s)}

\* the paths the concurrent specification watches
PathA == <<"/", "a">>
PathAB == <<"/", "a", "/", "b">>
WatchPaths == {PathA, PathAB}

\* w_string_startswith(name, prefix)
w_string_startswith(name, prefix) ==
    /\ Len(prefix) <= Len(name)
    /\ \A i \in 1 .. Len(prefix) : name[i] = prefix[i]

\* is_slash(c), POSIX build
is_slash(c) == c = "/"

\* name.data()[i] with i a 0-based byte offset; the byte at offset size() is
\* the terminating NUL
ByteAt(name, i) == IF i < Len(name) THEN name[i + 1] ELSE "NUL"

\* ------------------------------------------------------------------ state

VARIABLES
    watched,            \* watched_roots: the entries <<path, root>> of the map
    roots,              \* every w_root_t the process has allocated or may allocate
    live_roots,         \* std::atomic<long> live_roots
    next_root_number,   \* static std::atomic<long> next_root_number
    pc,                 \* what each thread is doing, with its locals
    doc,                \* the persisted state document
    loader,             \* position of w_root_load_state in the document
    drain,              \* position and locals of w_root_free_watched_roots
    children,           \* running trigger child processes
    buildLog,           \* definitions the running load handed to the builder
    saved               \* what the registry held when doc was last saved

vars == <<watched, roots, live_roots, next_root_number, pc, doc, loader, drain,
          children, buildLog, saved>>

\* a w_root_t that has not been allocated yet
\* watcher is the backend's state for the root (attached or not), watcher_ops
\* the root's pointer to the backend; pending is the primary pending-change
\* queue, symlinks the pending_symlink_targets queue of Inner; hooks counts the
\* calls of the backend's root_dtor
UnbornRoot ==
    [status |-> "unborn", root_path |-> << >>, refcnt |-> 0, cancelled |-> FALSE,
     number |-> 0, root_dir |-> FALSE, watcher |-> FALSE, watcher_ops |-> FALSE,
     pending |-> "none", symlinks |-> "none", hooks |-> 0,
     teardowns |-> 0, dtors |-> 0, cancel_true |-> 0, triggers |-> {}]

\* new w_root_t(path): refcnt starts at 1, the creator's reference; the
\* constructor of Inner initialises the symlink-target queue
NewRoot(path) ==
    [UnbornRoot EXCEPT !.status = "live", !.root_path = path, !.refcnt = 1,
                       !.symlinks = "live"]

\* the root-owning part of the state, threaded through the lifecycle operators
Heap == [roots |-> roots, live_roots |-> live_roots]

Unborn == {r \in RootIds : roots[r].status = "unborn"}

\* ------------------------------------------------------------------ registry

\* map->find(path): the roots stored under path
MapFind(map, path) == {e[2] : e \in {x \in map : x[1] = path}}

MapPaths(map) == {e[1] : e \in map}

\* ------------------------------------------------------------------ lifecycle

\* a teardown that detaches the watcher before it destroys the view
TeardownStepsHookFirst ==
    <<"pending_drain", "watcher_root_dtor", "root_dir_reset", "inner_dtor", "inner_new">>

\* the statements of w_root_teardown, in program order
TeardownSteps ==
    <<"pending_drain", "root_dir_reset", "watcher_root_dtor", "inner_dtor", "inner_new">>

\* the statements of watchman_root::~watchman_root, in program order; the
\* members (Inner among them) are destroyed after the body
DtorSteps ==
    <<"cancel_subscriptions">> \o TeardownSteps \o
        <<"rwlock_destroy", "config_decref", "pending_destroy", "live_roots_dec",
          "members_dtor">>

\* one statement of the teardown or of the destructor applied to root r
ApplyStep(h, r, step) ==
    CASE step = "pending_drain" ->
           [h EXCEPT !.roots[r].pending = IF @ = "items" THEN "empty" ELSE @]
      [] step = "root_dir_reset" ->
           [h EXCEPT !.roots[r].root_dir = FALSE]
      [] step = "watcher_root_dtor" ->
           IF h.roots[r].watcher_ops
           THEN [h EXCEPT !.roots[r].watcher = FALSE, !.roots[r].hooks = @ + 1]
           ELSE h
      [] step = "inner_dtor" ->
           [h EXCEPT !.roots[r].symlinks = "destroyed"]
      [] step = "inner_new" ->
           [h EXCEPT !.roots[r].symlinks = "live",
                     !.roots[r].number = 0,
                     !.roots[r].teardowns = @ + 1]
      [] step = "pending_destroy" ->
           [h EXCEPT !.roots[r].pending = "destroyed"]
      [] step = "live_roots_dec" ->
           [h EXCEPT !.live_roots = @ - 1]
      [] step = "members_dtor" ->
           [h EXCEPT !.roots[r].symlinks = "destroyed",
                     !.roots[r].status = "destructed",
                     !.roots[r].dtors = @ + 1]
      [] OTHER -> h

\* the statements steps[i], steps[i + 1], ... applied in order
RECURSIVE ApplySteps(_, _, _, _)
ApplySteps(h, r, steps, i) ==
    IF i > Len(steps) THEN h
    ELSE ApplySteps(ApplyStep(h, r, steps[i]), r, steps, i + 1)

\* w_root_teardown: drain pending, reset the view's root_dir, run the watcher's
\* root_dtor, destroy and re-construct Inner in place
w_root_teardown(h, r) == ApplySteps(h, r, TeardownSteps, 1)

\* watchman_root::~watchman_root
root_dtor(h, r) == ApplySteps(h, r, DtorSteps, 1)

\* w_root_addref
w_root_addref(h, r) == [h EXCEPT !.roots[r].refcnt = @ + 1]

\* a release that destructs one reference too early
w_root_delref_raw_early(h, r) ==
    LET d == [h EXCEPT !.roots[r].refcnt = @ - 1]
    IN  IF d.roots[r].refcnt > 1 THEN d ELSE root_dtor(d, r)

\* w_root_delref_raw: --refcnt, and delete root when it reaches zero
w_root_delref_raw(h, r) ==
    LET d == [h EXCEPT !.roots[r].refcnt = @ - 1]
    IN  IF d.roots[r].refcnt # 0 THEN d ELSE root_dtor(d, r)

\* a test of the cancelled flag that every caller passes
w_root_cancel_won_always(h, r) == TRUE

\* w_root_cancel, the test of its test-and-set: the caller wins the cancellation
\* when the flag is still clear
w_root_cancel_won(h, r) == ~h.roots[r].cancelled

\* w_root_cancel, the set of its test-and-set
w_root_cancel_mark(h, r) == [h EXCEPT !.roots[r].cancelled = TRUE]

\* w_root_cancel, the winner's work; cancel_true counts the calls that returned true
w_root_cancel_finish(h, r) ==
    LET t == w_root_teardown(h, r)
    IN  [t EXCEPT !.roots[r].cancel_true = @ + 1]

\* w_root_cancel run to completion: the caller that finds the flag clear sets it
\* and tears the root down, any other caller changes nothing
w_root_cancel(h, r) ==
    IF w_root_cancel_won(h, r)
    THEN w_root_cancel_finish(w_root_cancel_mark(h, r), r)
    ELSE h

\* ------------------------------------------------------------------ threads

Idle == [op |-> "idle"]
Hold(r, n) == [op |-> "hold", root |-> r, n |-> n]
Done(call, r, n, ret) == [op |-> "done", call |-> call, root |-> r, n |-> n, ret |-> ret]

SetPc(t, rec) == pc' = [pc EXCEPT ![t] = rec]
SetHeap(h) == roots' = h.roots /\ live_roots' = h.live_roots

Creating == {t \in Threads : pc[t].op = "new"}

MinOf(S) == CHOOSE x \in S : \A y \in S : x <= y

\* root_resolve, the lookup under the read lock: a watched path yields its root
\* with a reference added for the caller, an unwatched one goes on to w_root_new
ResolveLookup(t, p) ==
    /\ pc[t].op = "idle"
    /\ drain.pc = "idle"
    /\ IF MapFind(watched, p) # {}
       THEN \E r \in MapFind(watched, p) :
              /\ SetHeap(w_root_addref(Heap, r))
              /\ SetPc(t, Hold(r, 1))
       ELSE /\ Cardinality(Unborn) > Cardinality(Creating)
            /\ SetPc(t, [op |-> "new", path |-> p])
            /\ UNCHANGED <<roots, live_roots>>
    /\ UNCHANGED <<watched, next_root_number, doc, loader, drain, children, buildLog, saved>>

\* w_root_new followed by its outcome: "vcs" is apply_ignore_vcs_configuration
\* failing, "opendir" w_dir_open failing, "watcher" w_watcher_init failing
NewOutcomes == {"ok", "vcs", "opendir", "watcher"}

\* a creation that leaves live_roots alone
w_root_new_uncounted(h, r, path, outcome, number) ==
    LET a == [h EXCEPT !.roots[r] = NewRoot(path)]
    IN  IF outcome = "ok"
        THEN [a EXCEPT !.roots[r].pending = "empty",
                       !.roots[r].watcher = TRUE,
                       !.roots[r].watcher_ops = TRUE,
                       !.roots[r].number = number,
                       !.roots[r].root_dir = TRUE]
        ELSE w_root_delref_raw([a EXCEPT !.roots[r].pending = "empty"], r)

\* a creation whose failure paths return without releasing the new root
w_root_new_leak(h, r, path, outcome, number) ==
    LET a == [h EXCEPT !.roots[r] = NewRoot(path), !.live_roots = @ + 1]
    IN  IF outcome = "ok"
        THEN [a EXCEPT !.roots[r].pending = "empty",
                       !.roots[r].watcher = TRUE,
                       !.roots[r].watcher_ops = TRUE,
                       !.roots[r].number = number,
                       !.roots[r].root_dir = TRUE]
        ELSE [a EXCEPT !.roots[r].pending = "empty"]

w_root_new(h, r, path, outcome, number) ==
    LET a == [h EXCEPT !.roots[r] = NewRoot(path), !.live_roots = @ + 1]
    IN  IF outcome = "ok"
        THEN [a EXCEPT !.roots[r].pending = "empty",
                       !.roots[r].watcher = TRUE,
                       !.roots[r].watcher_ops = TRUE,
                       !.roots[r].number = number,
                       !.roots[r].root_dir = TRUE]
        ELSE w_root_delref_raw([a EXCEPT !.roots[r].pending = "empty"], r)

RootNew(t) ==
    /\ pc[t].op = "new"
    /\ Unborn # {}
    /\ \E outcome \in NewOutcomes :
         LET r == MinOf(Unborn)
         IN  /\ SetHeap(w_root_new(Heap, r, pc[t].path, outcome, next_root_number))
             /\ next_root_number' =
                  IF outcome = "ok" THEN next_root_number + 1 ELSE next_root_number
             /\ SetPc(t, IF outcome = "ok" THEN [op |-> "insert", root |-> r] ELSE Idle)
    /\ UNCHANGED <<watched, doc, loader, drain, children, buildLog, saved>>

\* an insert that never looks for an entry already stored under the path
MapInsertBlind(map, path, r) == [lost |-> FALSE, map |-> map \cup {<<path, r>>}]

\* insert(path, root) under the write lock: fails when the path is present
MapInsert(map, path, r) ==
    IF MapFind(map, path) # {}
    THEN [lost |-> TRUE, map |-> map]
    ELSE [lost |-> FALSE, map |-> map \cup {<<path, r>>}]

\* root_resolve, the insert under the write lock: the loser of a race drops its
\* new root and takes a reference on the one already stored (its return is kept
\* visible as a "done" step; the other returns go straight to holding the root)
ResolveInsert(t) ==
    /\ pc[t].op = "insert"
    /\ LET r == pc[t].root
           p == roots[r].root_path
           ins == MapInsert(watched, p, r)
       IN  /\ watched' = ins.map
           /\ IF ins.lost
              THEN \E e \in MapFind(watched, p) :
                     /\ SetHeap(w_root_delref_raw(w_root_addref(Heap, e), r))
                     /\ SetPc(t, Done("resolve", e, 1, "lost_race"))
              ELSE /\ SetHeap(w_root_addref(Heap, r))
                   /\ SetPc(t, Hold(r, 1))
    /\ UNCHANGED <<next_root_number, doc, loader, drain, children, buildLog, saved>>

\* w_root_addref by a thread that holds a reference
AddRef(t) ==
    /\ pc[t].op = "hold"
    /\ pc[t].n < MaxHold
    /\ SetHeap(w_root_addref(Heap, pc[t].root))
    /\ SetPc(t, Hold(pc[t].root, pc[t].n + 1))
    /\ UNCHANGED <<watched, next_root_number, doc, loader, drain, children, buildLog, saved>>

\* w_root_delref by a thread that holds a reference
Release(t) ==
    /\ pc[t].op = "hold"
    /\ SetHeap(w_root_delref_raw(Heap, pc[t].root))
    /\ SetPc(t, IF pc[t].n = 1 THEN Idle ELSE Hold(pc[t].root, pc[t].n - 1))
    /\ UNCHANGED <<watched, next_root_number, doc, loader, drain, children, buildLog, saved>>

\* a removal that does not compare the stored root with the one given
remove_root_from_watched_any(map, h, r) ==
    LET p == h.roots[r].root_path
        found == MapFind(map, p)
    IN  IF found = {} THEN [ret |-> FALSE, map |-> map, h |-> h]
        ELSE [ret |-> TRUE,
              map |-> {e \in map : e[1] # p},
              h |-> w_root_delref_raw(h, r)]

\* remove_root_from_watched
remove_root_from_watched(map, h, r) ==
    LET p == h.roots[r].root_path
        found == MapFind(map, p)
    IN  IF found = {} THEN [ret |-> FALSE, map |-> map, h |-> h]
        ELSE IF r \in found
        THEN [ret |-> TRUE,
              map |-> {e \in map : e[1] # p},
              h |-> w_root_delref_raw(h, r)]
        ELSE [ret |-> FALSE, map |-> map, h |-> h]

\* unwatch: a holder of a reference removes its root from the registry
Remove(t) ==
    /\ pc[t].op = "hold"
    /\ LET res == remove_root_from_watched(watched, Heap, pc[t].root)
       IN  /\ watched' = res.map
           /\ SetHeap(res.h)
           /\ SetPc(t, Done("remove", pc[t].root, pc[t].n, res.ret))
    /\ UNCHANGED <<next_root_number, doc, loader, drain, children, buildLog, saved>>

\* w_root_cancel by a holder, first half: the flag
CancelMark(t) ==
    /\ pc[t].op = "hold"
    /\ LET r == pc[t].root
       IN  IF w_root_cancel_won(Heap, r)
           THEN /\ SetHeap(w_root_cancel_mark(Heap, r))
                /\ SetPc(t, [op |-> "cancel", root |-> r, n |-> pc[t].n])
           ELSE /\ SetPc(t, Done("cancel", r, pc[t].n, FALSE))
                /\ UNCHANGED <<roots, live_roots>>
    /\ UNCHANGED <<watched, next_root_number, doc, loader, drain, children, buildLog, saved>>

\* w_root_cancel by a holder, second half: the winner's teardown
CancelTeardown(t) ==
    /\ pc[t].op = "cancel"
    /\ SetHeap(w_root_cancel_finish(Heap, pc[t].root))
    /\ SetPc(t, Done("cancel", pc[t].root, pc[t].n, TRUE))
    /\ UNCHANGED <<watched, next_root_number, doc, loader, drain, children, buildLog, saved>>

\* the call returns to a caller that still holds its references
Return(t) ==
    /\ pc[t].op = "done"
    /\ SetPc(t, IF pc[t].n = 0 THEN Idle ELSE Hold(pc[t].root, pc[t].n))
    /\ UNCHANGED <<watched, roots, live_roots, next_root_number, doc, loader, drain,
                   children, buildLog, saved>>

\* ------------------------------------------------------------------ find

\* the test of w_find_enclosing_root without the separator check
EnclosesPrefixOnly(name, root_name) == w_string_startswith(name, root_name)

\* the test w_find_enclosing_root applies to each entry of the map
Encloses(name, root_name) ==
    /\ w_string_startswith(name, root_name)
    /\ \/ Len(name) = Len(root_name)
       \/ is_slash(ByteAt(name, Len(root_name)))

\* memcpy(prefix, filename, size); prefix[size] = 0
CopyPrefix(filename, size) == SubSeq(filename, 1, size)

\* strdup(filename + offset)
StrdupFrom(filename, offset) == SubSeq(filename, offset + 1, Len(filename))

NoMatch(file) ==
    [file |-> file, found |-> FALSE, prefix |-> << >>, relnull |-> TRUE,
     relpath |-> << >>]

\* a scan that borrows the root without taking a reference
FindScanNoRef(t, file) ==
    /\ pc[t].op = "idle"
    /\ LET matches == {e \in watched : Encloses(file, e[1])}
       IN  IF matches = {}
           THEN SetPc(t, Done("find", NoRoot, 0, NoMatch(file)))
           ELSE \E e \in matches :
                  SetPc(t, [op |-> "find", root |-> e[2], file |-> file])
    /\ UNCHANGED <<roots, live_roots>>
    /\ UNCHANGED <<watched, next_root_number, doc, loader, drain, children, buildLog, saved>>

\* w_find_enclosing_root, the scan under the read lock: the first entry in the
\* map's iteration order that encloses the file, with a reference added
FindScan(t, file) ==
    /\ pc[t].op = "idle"
    /\ LET matches == {e \in watched : Encloses(file, e[1])}
       IN  IF matches = {}
           THEN /\ SetPc(t, Done("find", NoRoot, 0, NoMatch(file)))
                /\ UNCHANGED <<roots, live_roots>>
           ELSE \E e \in matches :
                  /\ SetHeap(w_root_addref(Heap, e[2]))
                  /\ SetPc(t, [op |-> "find", root |-> e[2], file |-> file])
    /\ UNCHANGED <<watched, next_root_number, doc, loader, drain, children, buildLog, saved>>

\* w_find_enclosing_root after the lock is dropped: the path portions are cut
\* at root->root_path.size(), then the reference is released
FindExtract(t) ==
    /\ pc[t].op = "find"
    /\ LET r == pc[t].root
           file == pc[t].file
           size == Len(roots[r].root_path)
           res == [file |-> file, found |-> TRUE,
                   prefix |-> CopyPrefix(file, size),
                   relnull |-> (size = Len(file)),
                   relpath |-> IF size = Len(file) THEN << >>
                               ELSE StrdupFrom(file, size + 1)]
       IN  /\ SetHeap(w_root_delref_raw(Heap, r))
           /\ SetPc(t, Done("find", NoRoot, 0, res))
    /\ UNCHANGED <<watched, next_root_number, doc, loader, drain, children, buildLog, saved>>

\* ------------------------------------------------------------------ triggers

\* trigger definitions, as JSON objects: a usable one, another under the same
\* name, one under a second name, one without a name, and a legacy one that
\* carries "rules" beside otherwise usable fields
DefT == [name |-> "t", command |-> "echo"]
DefT2 == [name |-> "t", command |-> "ls"]
DefU == [name |-> "u", command |-> "echo"]
DefNoName == [command |-> "echo"]
DefLegacy == [name |-> "u", command |-> "echo", rules |-> "legacy"]
TrigDefs == {DefT, DefT2, DefU, DefNoName, DefLegacy}

\* json_object_get(obj, key) != NULL
HasKey(obj, key) == key \in DOMAIN obj

\* w_build_trigger_from_def: a command that keeps the definition it was built
\* from, or no command when a required field is missing
w_build_trigger_from_def(def) ==
    IF HasKey(def, "name") /\ HasKey(def, "command")
    THEN [ok |-> TRUE,
          cmd |-> [triggername |-> def.name, definition |-> def, current_proc |-> 0]]
    ELSE [ok |-> FALSE, cmd |-> [triggername |-> "", definition |-> def,
                                 current_proc |-> 0]]

\* map[cmd->triggername] = std::move(cmd)
TablePut(tbl, cmd) == {c \in tbl : c.triggername # cmd.triggername} \cup {cmd}

\* the trigger loop of a load that builds legacy definitions like any other
RECURSIVE LoadTriggersNoLegacySkip(_, _, _, _)
LoadTriggersNoLegacySkip(tbl, log, triggers, j) ==
    IF j > Len(triggers) THEN [tbl |-> tbl, log |-> log]
    ELSE LET tobj == triggers[j]
             built == w_build_trigger_from_def(tobj)
         IN  IF ~built.ok
             THEN LoadTriggersNoLegacySkip(tbl, log \cup {tobj}, triggers, j + 1)
             ELSE LoadTriggersNoLegacySkip(TablePut(tbl, built.cmd), log \cup {tobj},
                                           triggers, j + 1)

\* the trigger loop of w_root_load_state, from index j: legacy definitions are
\* passed over, a definition that does not build is logged and passed over,
\* every other one is installed under its name
RECURSIVE LoadTriggers(_, _, _, _)
LoadTriggers(tbl, log, triggers, j) ==
    IF j > Len(triggers) THEN [tbl |-> tbl, log |-> log]
    ELSE LET tobj == triggers[j]
             built == w_build_trigger_from_def(tobj)
         IN  IF HasKey(tobj, "rules")
             THEN LoadTriggers(tbl, log, triggers, j + 1)
             ELSE IF ~built.ok
             THEN LoadTriggers(tbl, log \cup {tobj}, triggers, j + 1)
             ELSE LoadTriggers(TablePut(tbl, built.cmd), log \cup {tobj},
                               triggers, j + 1)

\* root_resolve(filename, auto_watch = true) run without interruption: the
\* watched root with a reference for the caller, or a new root inserted with
\* created = true, or failure when the root cannot be created
root_resolve(map, h, path, outcome, number) ==
    LET found == MapFind(map, path)
        unborn == {r \in RootIds : h.roots[r].status = "unborn"}
    IN  IF found # {}
        THEN LET r == CHOOSE x \in found : TRUE
             IN  [ok |-> TRUE, created |-> FALSE, root |-> r, map |-> map,
                  h |-> w_root_addref(h, r), number |-> number]
        ELSE LET r == MinOf(unborn)
                 n == w_root_new(h, r, path, outcome, number)
             IN  IF outcome # "ok"
                 THEN [ok |-> FALSE, created |-> FALSE, root |-> NoRoot, map |-> map,
                       h |-> n, number |-> number]
                 ELSE [ok |-> TRUE, created |-> TRUE, root |-> r,
                       map |-> MapInsert(map, path, r).map,
                       h |-> w_root_addref(n, r), number |-> number + 1]

\* ------------------------------------------------------------------ save

\* the orders in which an unordered_map may be iterated
Orders(S) ==
    {f \in [1 .. Cardinality(S) -> S] :
        \A i, j \in 1 .. Cardinality(S) : f[i] = f[j] => i = j}

\* a listing that stops one command short
w_root_trigger_list_to_json_short(h, r) ==
    {[i \in 1 .. (Len(o) - 1) |-> o[i].definition] :
        o \in Orders(h.roots[r].triggers)}

\* w_root_trigger_list_to_json: each command's definition, in iteration order
w_root_trigger_list_to_json(h, r) ==
    {[i \in DOMAIN o |-> o[i].definition] : o \in Orders(h.roots[r].triggers)}

\* the loop of w_root_save_state: one {path, triggers} object per entry of the
\* map, in iteration order
RECURSIVE SaveEntries(_, _)
SaveEntries(map, h) ==
    IF map = {} THEN {<< >>}
    ELSE UNION {
           {<<[path |-> h.roots[e[2]].root_path, triggers |-> tl]>> \o rest :
               tl \in w_root_trigger_list_to_json(h, e[2]),
               rest \in SaveEntries(map \ {e}, h)} : e \in map}

\* w_root_save_state: the documents a save may write
w_root_save_state(map, h) ==
    {[kind |-> "array", watched |-> w] : w \in SaveEntries(map, h)}

\* ------------------------------------------------------------------ stop_all

\* a loop that cancels each root but keeps the map's reference to it
RECURSIVE StopEachNoRelease(_, _)
StopEachNoRelease(map, h) ==
    IF map = {} THEN h
    ELSE LET e == CHOOSE x \in map : TRUE
         IN  StopEachNoRelease(map \ {e}, w_root_cancel(h, e[2]))

\* the loop of w_root_stop_watch_all: cancel each root and release the map's
\* reference to it
RECURSIVE StopEach(_, _)
StopEach(map, h) ==
    IF map = {} THEN h
    ELSE LET e == CHOOSE x \in map : TRUE
         IN  StopEach(map \ {e}, w_root_delref_raw(w_root_cancel(h, e[2]), e[2]))

\* a stop_all that leaves the entries in the map
StopAllNoClear(t) ==
    /\ pc[t].op = "idle"
    /\ SetHeap(StopEach(watched, Heap))
    /\ watched' = watched
    /\ SetPc(t, [op |-> "save", stopped |-> MapPaths(watched),
                 drained |-> {e[2] : e \in watched}])
    /\ UNCHANGED <<next_root_number, doc, loader, drain, children, buildLog, saved>>

\* w_root_stop_watch_all, the block under the write lock; stopped is the array
\* it returns, drained the roots its loop visited
StopAll(t) ==
    /\ pc[t].op = "idle"
    /\ SetHeap(StopEach(watched, Heap))
    /\ watched' = {}
    /\ SetPc(t, [op |-> "save", stopped |-> MapPaths(watched),
                 drained |-> {e[2] : e \in watched}])
    /\ UNCHANGED <<next_root_number, doc, loader, drain, children, buildLog, saved>>

\* the paths and the <<path, trigger name, definition>> triples of a registry
Abstract(map, h) ==
    [paths |-> MapPaths(map),
     trigs |-> UNION {{<<e[1], c.triggername, c.definition>> :
                          c \in h.roots[e[2]].triggers} : e \in map}]

\* w_state_save: the document is rewritten from the registry
w_state_save ==
    /\ doc' \in w_root_save_state(watched, Heap)
    /\ saved' = Abstract(watched, Heap)

\* w_root_stop_watch_all, the w_state_save that follows the block
StateSave(t) ==
    /\ pc[t].op = "save"
    /\ w_state_save
    /\ SetPc(t, Idle)
    /\ UNCHANGED <<watched, roots, live_roots, next_root_number, loader, drain,
                   children, buildLog>>

\* ------------------------------------------------------------------ drain

\* the loop of w_root_free_watched_roots under the read lock: cancel every root
RECURSIVE CancelEach(_, _)
CancelEach(map, h) ==
    IF map = {} THEN h
    ELSE LET e == CHOOSE x \in map : TRUE
         IN  CancelEach(map \ {e}, w_root_cancel(h, e[2]))

Min(a, b) == IF a < b THEN a ELSE b

\* w_root_free_watched_roots up to the poll loop
DrainCancel ==
    /\ drain.pc = "idle"
    /\ SetHeap(CancelEach(watched, Heap))
    /\ drain' = [pc |-> "poll", last |-> live_roots, elapsed |-> 0,
                 interval |-> DrainInterval, residual |-> 0]
    /\ UNCHANGED <<watched, next_root_number, pc, doc, loader, children, buildLog, saved>>

\* a poll loop without the deadline
DrainPollNoDeadline ==
    /\ drain.pc = "poll"
    /\ IF live_roots = 0
       THEN drain' = [drain EXCEPT !.pc = "done"]
       ELSE drain' = [drain EXCEPT !.last = live_roots,
                                   !.interval = Min(@ * 2, DrainIntervalCap)]
    /\ UNCHANGED <<watched, roots, live_roots, next_root_number, pc, doc, loader,
                   children, buildLog, saved>>

\* one turn of the poll loop of w_root_free_watched_roots; elapsed is
\* time(NULL) - started
DrainPoll ==
    /\ drain.pc = "poll"
    /\ IF live_roots = 0
       THEN drain' = [drain EXCEPT !.pc = "done"]
       ELSE IF drain.elapsed > DrainTimeout
       THEN drain' = [drain EXCEPT !.pc = "done", !.residual = live_roots]
       ELSE drain' = [drain EXCEPT !.last = live_roots,
                                   !.interval = Min(@ * 2, DrainIntervalCap)]
    /\ UNCHANGED <<watched, roots, live_roots, next_root_number, pc, doc, loader,
                   children, buildLog, saved>>

\* a second of wall-clock time passes while the drain polls
Tick ==
    /\ drain.pc = "poll"
    /\ drain.elapsed < MaxTime
    /\ drain' = [drain EXCEPT !.elapsed = @ + 1]
    /\ UNCHANGED <<watched, roots, live_roots, next_root_number, pc, doc, loader,
                   children, buildLog, saved>>

\* ------------------------------------------------------------------ Spec

EmptyDoc == [kind |-> "absent", watched |-> << >>]
DrainIdle == [pc |-> "idle", last |-> 0, elapsed |-> 0, interval |-> 0, residual |-> 0]
\* skipped: the entries whose root could not be resolved; unstarted: those whose
\* new root failed to start
LoaderIdle == [pc |-> "idle", i |-> 0, ret |-> TRUE, skipped |-> {}, unstarted |-> {}]
NothingSaved == [paths |-> {}, trigs |-> {}]

Init ==
    /\ watched = {}
    /\ roots = [r \in RootIds |-> UnbornRoot]
    /\ live_roots = 0
    /\ next_root_number = 1
    /\ pc = [t \in Threads |-> Idle]
    /\ doc = EmptyDoc
    /\ loader = LoaderIdle
    /\ drain = DrainIdle
    /\ children = {}
    /\ buildLog = {}
    /\ saved = NothingSaved

\* the file names the concurrent specification looks up
FindFiles == {PathAB}

Next ==
    \/ \E t \in Threads, p \in WatchPaths : ResolveLookup(t, p)
    \/ \E t \in Threads : RootNew(t)
    \/ \E t \in Threads : ResolveInsert(t)
    \/ \E t \in Threads : Release(t)
    \/ \E t \in Threads : Remove(t)
    \/ \E t \in Threads : CancelMark(t)
    \/ \E t \in Threads : CancelTeardown(t)
    \/ \E t \in Threads : Return(t)
    \/ \E t \in Threads, f \in FindFiles : FindScan(t, f)
    \/ \E t \in Threads : FindExtract(t)
    \/ \E t \in Threads : StopAll(t)
    \/ \E t \in Threads : StateSave(t)
    \/ DrainCancel

Spec == Init /\ [][Next]_vars

\* a root as root_resolve leaves it in the registry: initialised, one reference
\* owned by the map
WatchedRoot(path, number) ==
    [NewRoot(path) EXCEPT !.pending = "empty", !.watcher = TRUE, !.watcher_ops = TRUE,
                          !.root_dir = TRUE, !.number = number]

Injective(f) == \A i, j \in DOMAIN f : f[i] = f[j] => i = j

\* the process after it has watched up to MaxRoots distinct canonical paths
InitFind ==
    \E k \in 0 .. MaxRoots :
      \E f \in [1 .. k -> RootPaths] :
        /\ Injective(f)
        /\ watched = {<<f[i], i>> : i \in 1 .. k}
        /\ roots = [r \in RootIds |->
                      IF r <= k THEN WatchedRoot(f[r], r) ELSE UnbornRoot]
        /\ live_roots = k
        /\ next_root_number = k + 1
        /\ pc = [t \in Threads |-> Idle]
        /\ doc = EmptyDoc
        /\ loader = LoaderIdle
        /\ drain = DrainIdle
        /\ children = {}
        /\ buildLog = {}
        /\ saved = NothingSaved

\* w_find_enclosing_root on every file name, against every such registry
NextFind ==
    \/ \E f \in FileNames : FindScan("t1", f)
    \/ FindExtract("t1")
    \/ Return("t1")

SpecFind == InitFind /\ [][NextFind]_vars

\* ------------------------------------------------------------------ load

\* w_root_load_state up to its loop: no "watched" key is success, a "watched"
\* that is not an array is failure
LoadStart ==
    /\ loader.pc = "idle"
    /\ loader' = IF doc.kind = "absent" THEN [loader EXCEPT !.pc = "done", !.ret = TRUE]
                 ELSE IF doc.kind # "array"
                 THEN [loader EXCEPT !.pc = "done", !.ret = FALSE]
                 ELSE [loader EXCEPT !.pc = "loop", !.i = 1]
    /\ UNCHANGED <<watched, roots, live_roots, next_root_number, pc, doc, drain,
                   children, buildLog, saved>>

\* root_start failing: the root created by this load is cancelled
StartOutcome(h, r, created, startOk) ==
    IF created /\ ~startOk THEN w_root_cancel(h, r) ELSE h

\* the definitions of a trigger list that build
RECURSIVE Buildable(_)
Buildable(triggers) ==
    IF triggers = << >> THEN << >>
    ELSE (IF w_build_trigger_from_def(Head(triggers)).ok THEN <<Head(triggers)>> ELSE << >>)
            \o Buildable(Tail(triggers))

\* a turn of the loop that also strikes the definitions that failed to build
\* from the entry of the document
LoadEntryDropsFailed ==
    /\ loader.pc = "loop"
    /\ loader.i <= Len(doc.watched)
    /\ \E outcome \in NewOutcomes, startOk \in BOOLEAN :
         LET obj == doc.watched[loader.i]
             res == root_resolve(watched, Heap, obj.path, outcome, next_root_number)
             r == res.root
             inst == LoadTriggers(res.h.roots[r].triggers, buildLog, obj.triggers, 1)
             h1 == [res.h EXCEPT !.roots[r].triggers = inst.tbl]
             h2 == StartOutcome(h1, r, res.created, startOk)
             h3 == w_root_delref_raw(h2, r)
         IN  /\ MapFind(watched, obj.path) = {} => Unborn # {}
             /\ next_root_number' = res.number
             /\ IF ~res.ok
                THEN /\ SetHeap(res.h)
                     /\ loader' = [loader EXCEPT !.i = @ + 1,
                                                 !.skipped = @ \cup {loader.i}]
                     /\ UNCHANGED <<watched, buildLog, doc>>
                ELSE /\ SetHeap(h3)
                     /\ watched' = res.map
                     /\ buildLog' = inst.log
                     /\ loader' = [loader EXCEPT
                                     !.i = @ + 1,
                                     !.unstarted = IF res.created /\ ~startOk
                                                   THEN @ \cup {loader.i} ELSE @]
                     /\ doc' = [doc EXCEPT !.watched[loader.i].triggers = Buildable(@)]
    /\ UNCHANGED <<pc, drain, children, saved>>

\* a turn of the loop that gives the load up when the entry's root cannot be
\* resolved
LoadEntryAbortOnFail ==
    /\ loader.pc = "loop"
    /\ loader.i <= Len(doc.watched)
    /\ \E outcome \in NewOutcomes, startOk \in BOOLEAN :
         LET obj == doc.watched[loader.i]
             res == root_resolve(watched, Heap, obj.path, outcome, next_root_number)
             r == res.root
             inst == LoadTriggers(res.h.roots[r].triggers, buildLog, obj.triggers, 1)
             h1 == [res.h EXCEPT !.roots[r].triggers = inst.tbl]
             h2 == StartOutcome(h1, r, res.created, startOk)
             h3 == w_root_delref_raw(h2, r)
         IN  /\ MapFind(watched, obj.path) = {} => Unborn # {}
             /\ next_root_number' = res.number
             /\ IF ~res.ok
                THEN /\ SetHeap(res.h)
                     /\ loader' = [loader EXCEPT !.pc = "done", !.ret = FALSE,
                                                 !.skipped = @ \cup {loader.i}]
                     /\ UNCHANGED <<watched, buildLog>>
                ELSE /\ SetHeap(h3)
                     /\ watched' = res.map
                     /\ buildLog' = inst.log
                     /\ loader' = [loader EXCEPT
                                     !.i = @ + 1,
                                     !.unstarted = IF res.created /\ ~startOk
                                                   THEN @ \cup {loader.i} ELSE @]
    /\ UNCHANGED <<pc, doc, drain, children, saved>>

\* one turn of the loop of w_root_load_state: resolve the entry's path, install
\* its triggers, start the root if this created it, release the reference
LoadEntry ==
    /\ loader.pc = "loop"
    /\ loader.i <= Len(doc.watched)
    /\ \E outcome \in NewOutcomes, startOk \in BOOLEAN :
         LET obj == doc.watched[loader.i]
             res == root_resolve(watched, Heap, obj.path, outcome, next_root_number)
             r == res.root
             inst == LoadTriggers(res.h.roots[r].triggers, buildLog, obj.triggers, 1)
             h1 == [res.h EXCEPT !.roots[r].triggers = inst.tbl]
             h2 == StartOutcome(h1, r, res.created, startOk)
             h3 == w_root_delref_raw(h2, r)
         IN  /\ MapFind(watched, obj.path) = {} => Unborn # {}
             /\ next_root_number' = res.number
             /\ IF ~res.ok
                THEN /\ SetHeap(res.h)
                     /\ loader' = [loader EXCEPT !.i = @ + 1,
                                                 !.skipped = @ \cup {loader.i}]
                     /\ UNCHANGED <<watched, buildLog>>
                ELSE /\ SetHeap(h3)
                     /\ watched' = res.map
                     /\ buildLog' = inst.log
                     /\ loader' = [loader EXCEPT
                                     !.i = @ + 1,
                                     !.unstarted = IF res.created /\ ~startOk
                                                   THEN @ \cup {loader.i} ELSE @]
    /\ UNCHANGED <<pc, doc, drain, children, saved>>

\* w_root_load_state returns true after the last entry
LoadReturn ==
    /\ loader.pc = "loop"
    /\ loader.i > Len(doc.watched)
    /\ loader' = [loader EXCEPT !.pc = "done", !.ret = TRUE]
    /\ UNCHANGED <<watched, roots, live_roots, next_root_number, pc, doc, drain,
                   children, buildLog, saved>>

\* the state documents a process may find at startup
RECURSIVE SeqsUpTo(_, _)
SeqsUpTo(S, n) ==
    IF n = 0 THEN {<< >>}
    ELSE LET P == SeqsUpTo(S, n - 1)
         IN  P \cup {Append(q, x) : q \in {y \in P : Len(y) = n - 1}, x \in S}

\* the definitions such a document draws from
DocDefs == {DefT, DefU, DefNoName, DefLegacy}

DocEntries == [path : WatchPaths, triggers : SeqsUpTo(DocDefs, MaxTriggers)]

Docs ==
    {[kind |-> k, watched |-> << >>] : k \in {"absent", "notarray"}}
        \cup {[kind |-> "array", watched |-> w] : w \in SeqsUpTo(DocEntries, MaxEntries)}

\* a fresh process that finds any state document
InitLoad ==
    /\ watched = {}
    /\ roots = [r \in RootIds |-> UnbornRoot]
    /\ live_roots = 0
    /\ next_root_number = 1
    /\ pc = [t \in Threads |-> Idle]
    /\ doc \in Docs
    /\ loader = LoaderIdle
    /\ drain = DrainIdle
    /\ children = {}
    /\ buildLog = {}
    /\ saved = NothingSaved

NextLoad ==
    \/ LoadStart
    \/ LoadEntry
    \/ LoadReturn

SpecLoad == InitLoad /\ [][NextLoad]_vars

\* ------------------------------------------------------------------ persist

\* the daemon serves commands once the state document has been loaded; the
\* load's locals and its log are gone by then
Serving == loader.pc \in {"done", "serving"}
LoaderServing == [LoaderIdle EXCEPT !.pc = "serving"]

\* the watch command: root_resolve, then the borrowed reference is released
Watch(p) ==
    /\ Serving
    /\ MapFind(watched, p) = {} => Unborn # {}
    /\ \E outcome \in NewOutcomes :
         LET res == root_resolve(watched, Heap, p, outcome, next_root_number)
         IN  /\ next_root_number' = res.number
             /\ watched' = res.map
             /\ SetHeap(IF res.ok THEN w_root_delref_raw(res.h, res.root) ELSE res.h)
    /\ loader' = LoaderServing
    /\ buildLog' = {}
    /\ UNCHANGED <<pc, doc, drain, children, saved>>

\* the trigger command: a definition that builds is installed under its name
AddTrigger(p, def) ==
    /\ Serving
    /\ \E r \in MapFind(watched, p) :
         LET built == w_build_trigger_from_def(def)
         IN  /\ built.ok
             /\ roots' = [roots EXCEPT ![r].triggers = TablePut(@, built.cmd)]
    /\ loader' = LoaderServing
    /\ buildLog' = {}
    /\ UNCHANGED <<watched, live_roots, next_root_number, pc, doc, drain, children,
                   saved>>

\* the state is saved
Save ==
    /\ Serving
    /\ w_state_save
    /\ loader' = LoaderServing
    /\ buildLog' = {}
    /\ UNCHANGED <<watched, roots, live_roots, next_root_number, pc, drain, children>>

\* the process exits and a new one starts: only the document survives
Restart ==
    /\ Serving
    /\ watched' = {}
    /\ roots' = [r \in RootIds |-> UnbornRoot]
    /\ live_roots' = 0
    /\ next_root_number' = 1
    /\ loader' = LoaderIdle
    /\ buildLog' = {}
    /\ UNCHANGED <<pc, doc, drain, children, saved>>

NextPersist ==
    \/ LoadStart
    \/ LoadEntry
    \/ LoadReturn
    \/ \E p \in WatchPaths : Watch(p)
    \/ \E p \in WatchPaths, def \in TrigDefs : AddTrigger(p, def)
    \/ Save
    \/ Restart

SpecPersist == Init /\ [][NextPersist]_vars

\* ------------------------------------------------------------------ assess

\* the trigger tables the trigger command can build: at most one command per name
Tables ==
    {{w_build_trigger_from_def(d).cmd : d \in D} :
        D \in {X \in SUBSET {d \in TrigDefs : w_build_trigger_from_def(d).ok} :
                 \A a, b \in X : a.name = b.name => a = b}}

RunningPids == {c.pid : c \in children}

\* an assessment that spawns whether or not a child is recorded
w_assess_trigger_always(tbl, name, matches, pid) ==
    IF matches
    THEN {IF c.triggername = name THEN [c EXCEPT !.current_proc = pid] ELSE c :
             c \in tbl}
    ELSE tbl

\* w_assess_trigger on the command called name: when the query matches and no
\* process id is recorded the command is spawned and the child's id recorded;
\* otherwise the table is left as it is
w_assess_trigger(tbl, name, matches, pid) ==
    IF matches /\ \E c \in tbl : c.triggername = name /\ c.current_proc = 0
    THEN {IF c.triggername = name THEN [c EXCEPT !.current_proc = pid] ELSE c :
             c \in tbl}
    ELSE tbl

\* pending changes of root r are processed and one of its triggers assessed
Assess(r, name, matches) ==
    /\ \E e \in watched : e[2] = r
    /\ \E c \in roots[r].triggers : c.triggername = name
    /\ \E pid \in (1 .. MaxPid) \ RunningPids :
         LET tbl == w_assess_trigger(roots[r].triggers, name, matches, pid)
         IN  /\ roots' = [roots EXCEPT ![r].triggers = tbl]
             /\ children' = IF tbl = roots[r].triggers THEN children
                            ELSE children \cup {[pid |-> pid, root |-> r, name |-> name]}
    /\ UNCHANGED <<watched, live_roots, next_root_number, pc, doc, loader, drain,
                   buildLog, saved>>

\* a trigger child exits and is reaped: the command that recorded its id is
\* cleared
ChildExit(x) ==
    /\ x \in children
    /\ children' = children \ {x}
    /\ roots' = [roots EXCEPT ![x.root].triggers =
                    {IF c.current_proc = x.pid THEN [c EXCEPT !.current_proc = 0] ELSE c :
                        c \in @}]
    /\ UNCHANGED <<watched, live_roots, next_root_number, pc, doc, loader, drain,
                   buildLog, saved>>

\* the daemon watching both paths, each root with any trigger table
InitTrig ==
    \E ta \in Tables, tb \in Tables :
        /\ watched = {<<PathA, 1>>, <<PathAB, 2>>}
        /\ roots = [r \in RootIds |->
                      IF r = 1 THEN [WatchedRoot(PathA, 1) EXCEPT !.triggers = ta]
                      ELSE IF r = 2 THEN [WatchedRoot(PathAB, 2) EXCEPT !.triggers = tb]
                      ELSE UnbornRoot]
        /\ live_roots = 2
        /\ next_root_number = 3
        /\ pc = [t \in Threads |-> Idle]
        /\ doc = EmptyDoc
        /\ loader = LoaderServing
        /\ drain = DrainIdle
        /\ children = {}
        /\ buildLog = {}
        /\ saved = NothingSaved

NextTrig ==
    \/ \E r \in RootIds, name \in {"t", "u"}, matches \in BOOLEAN : Assess(r, name, matches)
    \/ \E x \in children : ChildExit(x)

SpecTrig == InitTrig /\ [][NextTrig]_vars

\* ------------------------------------------------------------------ shutdown

\* the roots live when the process shuts down: each watched, held by a thread,
\* or both
DrainConfigs ==
    {c \in [k : 0 .. MaxRoots,
            reg : SUBSET (RootIds \cap (1 .. Cardinality(WatchPaths))),
            hold : [Threads -> {NoRoot} \cup RootIds]] :
        /\ \A r \in c.reg : r <= c.k
        /\ \A t \in Threads : c.hold[t] <= c.k
        /\ \A r \in 1 .. c.k : r \in c.reg \/ \E t \in Threads : c.hold[t] = r}

PathOf(r) == IF r = 1 THEN PathA ELSE PathAB

InitDrain ==
    \E c \in DrainConfigs :
        /\ watched = {<<PathOf(r), r>> : r \in c.reg}
        /\ roots = [r \in RootIds |->
                      IF r <= c.k
                      THEN [WatchedRoot(PathOf(r), r) EXCEPT
                              !.refcnt = (IF r \in c.reg THEN 1 ELSE 0)
                                  + Cardinality({t \in Threads : c.hold[t] = r})]
                      ELSE UnbornRoot]
        /\ live_roots = c.k
        /\ next_root_number = c.k + 1
        /\ pc = [t \in Threads |-> IF c.hold[t] = NoRoot THEN Idle ELSE Hold(c.hold[t], 1)]
        /\ doc = EmptyDoc
        /\ loader = LoaderServing
        /\ drain = DrainIdle
        /\ children = {}
        /\ buildLog = {}
        /\ saved = NothingSaved

\* the shutdown drain, while worker threads unwatch and release their roots,
\* or never do
NextDrain ==
    \/ DrainCancel
    \/ DrainPoll
    \/ Tick
    \/ \E t \in Threads : Remove(t)
    \/ \E t \in Threads : Return(t)
    \/ \E t \in Threads : Release(t)

\* the drain's own thread is scheduled and time passes; nothing is assumed of
\* the worker threads
SpecDrain ==
    /\ InitDrain
    /\ [][NextDrain]_vars
    /\ WF_vars(DrainCancel)
    /\ WF_vars(DrainPoll)
    /\ WF_vars(Tick)

\* the reference counting alone: watch, unwatch, add_ref and release
NextRef ==
    \/ \E t \in Threads, p \in WatchPaths : ResolveLookup(t, p)
    \/ \E t \in Threads : RootNew(t)
    \/ \E t \in Threads : ResolveInsert(t)
    \/ \E t \in Threads : AddRef(t)
    \/ \E t \in Threads : Release(t)
    \/ \E t \in Threads : Remove(t)
    \/ \E t \in Threads : Return(t)

SpecRef == Init /\ [][NextRef]_vars

\* watch, unwatch and stop_all alone
NextStop ==
    \/ \E t \in Threads, p \in WatchPaths : ResolveLookup(t, p)
    \/ \E t \in Threads : RootNew(t)
    \/ \E t \in Threads : ResolveInsert(t)
    \/ \E t \in Threads : Release(t)
    \/ \E t \in Threads : Remove(t)
    \/ \E t \in Threads : Return(t)
    \/ \E t \in Threads : StopAll(t)
    \/ \E t \in Threads : StateSave(t)

SpecStop == Init /\ [][NextStop]_vars

\* watch, unwatch, stop_all and find_enclosing: the readers and the writers of
\* the registry, without cancellation
NextBorrow ==
    \/ \E t \in Threads, p \in WatchPaths : ResolveLookup(t, p)
    \/ \E t \in Threads : RootNew(t)
    \/ \E t \in Threads : ResolveInsert(t)
    \/ \E t \in Threads : Release(t)
    \/ \E t \in Threads : Remove(t)
    \/ \E t \in Threads : Return(t)
    \/ \E t \in Threads : StopAll(t)
    \/ \E t \in Threads : StateSave(t)
    \/ \E t \in Threads, f \in FindFiles : FindScan(t, f)
    \/ \E t \in Threads : FindExtract(t)

SpecBorrow == Init /\ [][NextBorrow]_vars

\* watch, unwatch, stop_all and the callers of w_root_cancel: the holders, the
\* loop of stop_all and the shutdown drain
NextCancel ==
    \/ \E t \in Threads, p \in WatchPaths : ResolveLookup(t, p)
    \/ \E t \in Threads : RootNew(t)
    \/ \E t \in Threads : ResolveInsert(t)
    \/ \E t \in Threads : Release(t)
    \/ \E t \in Threads : Remove(t)
    \/ \E t \in Threads : Return(t)
    \/ \E t \in Threads : StopAll(t)
    \/ \E t \in Threads : StateSave(t)
    \/ \E t \in Threads : CancelMark(t)
    \/ \E t \in Threads : CancelTeardown(t)
    \/ DrainCancel

SpecCancel == Init /\ [][NextCancel]_vars

\* ------------------------------------------------------------------ reload

\* documents whose definitions build or fail to build
ReloadEntries == [path : WatchPaths, triggers : SeqsUpTo({DefT, DefNoName}, MaxTriggers)]

ReloadDocs == {[kind |-> "array", watched |-> w] : w \in SeqsUpTo(ReloadEntries, MaxEntries)}

\* a fresh process that finds such a document
InitReload ==
    /\ watched = {}
    /\ roots = [r \in RootIds |-> UnbornRoot]
    /\ live_roots = 0
    /\ next_root_number = 1
    /\ pc = [t \in Threads |-> Idle]
    /\ doc \in ReloadDocs
    /\ loader = LoaderIdle
    /\ drain = DrainIdle
    /\ children = {}
    /\ buildLog = {}
    /\ saved = NothingSaved

\* the document is loaded, the state may be saved, the process restarts and
\* loads again
NextReload ==
    \/ LoadStart
    \/ LoadEntry
    \/ LoadReturn
    \/ Save
    \/ Restart

SpecReload == InitReload /\ [][NextReload]_vars

\* documents of several entries: each entry's triggers are none, or one that
\* fails to build followed by one that builds
SeveralEntries == [path : WatchPaths, triggers : {<< >>, <<DefNoName, DefT>>}]

SeveralDocs ==
    {[kind |-> k, watched |-> << >>] : k \in {"absent", "notarray"}}
        \cup {[kind |-> "array", watched |-> w] :
                 w \in SeqsUpTo(SeveralEntries, MaxEntries + 1)}

\* a fresh process that finds such a document
InitSeveral ==
    /\ watched = {}
    /\ roots = [r \in RootIds |-> UnbornRoot]
    /\ live_roots = 0
    /\ next_root_number = 1
    /\ pc = [t \in Threads |-> Idle]
    /\ doc \in SeveralDocs
    /\ loader = LoaderIdle
    /\ drain = DrainIdle
    /\ children = {}
    /\ buildLog = {}
    /\ saved = NothingSaved

SpecSeveral == InitSeveral /\ [][NextLoad]_vars

\* ------------------------------------------------------------------ locks

\* a thread with the locks it holds: reg is its hold on the registry lock
\* ("none", "r" or "w"), lockroot the root whose lock it holds (mode "r" or
\* "w"), trig the root whose trigger-table lock it holds, todo the entries a
\* save has still to visit
Locked(op, r, reg, lockroot, mode, trig, todo) ==
    [op |-> op, root |-> r, reg |-> reg, lockroot |-> lockroot, lockmode |-> mode,
     trig |-> trig, todo |-> todo]

NoLocks == Locked("idle", NoRoot, "none", NoRoot, "none", NoRoot, {})

Others(t) == Threads \ {t}

\* the registry lock can be taken for reading / for writing by thread t
RegistryReadable(t) == \A u \in Others(t) : pc[u].reg # "w"
RegistryWritable(t) == \A u \in Others(t) : pc[u].reg = "none"

\* the lock of root r can be taken for reading / for writing by thread t
RootReadable(t, r) == \A u \in Others(t) : ~(pc[u].lockroot = r /\ pc[u].lockmode = "w")
RootWritable(t, r) == \A u \in Others(t) : pc[u].lockroot # r

\* the trigger-table lock of root r is free for thread t
TriggersFree(t, r) == \A u \in Others(t) : pc[u].trig # r

LockFrame == UNCHANGED <<watched, roots, live_roots, next_root_number, doc, loader,
                         drain, children, buildLog, saved>>

\* w_root_save_state: watched_roots.rlock()
SaveLockRegistry(t) ==
    /\ pc[t].op = "idle"
    /\ RegistryReadable(t)
    /\ SetPc(t, [NoLocks EXCEPT !.op = "save", !.reg = "r", !.todo = watched])
    /\ LockFrame

\* w_root_save_state: the loop reaches its next entry and calls w_root_read_lock
SaveNextRoot(t) ==
    /\ pc[t].op = "save"
    /\ \E e \in pc[t].todo :
         SetPc(t, [pc[t] EXCEPT !.op = "save_wait", !.root = e[2]])
    /\ LockFrame

\* w_root_save_state: w_root_read_lock returns with the root's lock held
SaveLockRoot(t) ==
    /\ pc[t].op = "save_wait"
    /\ RootReadable(t, pc[t].root)
    /\ SetPc(t, [pc[t] EXCEPT !.op = "save_root", !.lockroot = pc[t].root,
                              !.lockmode = "r"])
    /\ LockFrame

\* w_root_trigger_list_to_json: root->triggers.rlock()
SaveLockTriggers(t) ==
    /\ pc[t].op = "save_root"
    /\ TriggersFree(t, pc[t].root)
    /\ SetPc(t, [pc[t] EXCEPT !.op = "save_trig", !.trig = pc[t].root])
    /\ LockFrame

\* the trigger lock is dropped, then w_root_read_unlock
SaveUnlockRoot(t) ==
    /\ pc[t].op = "save_trig"
    /\ SetPc(t, [pc[t] EXCEPT !.op = "save", !.trig = NoRoot, !.lockroot = NoRoot,
                              !.lockmode = "none",
                              !.todo = {e \in @ : e[2] # pc[t].root},
                              !.root = NoRoot])
    /\ LockFrame

\* w_root_save_state: the end of the rlock scope
SaveUnlockRegistry(t) ==
    /\ pc[t].op = "save"
    /\ pc[t].todo = {}
    /\ SetPc(t, NoLocks)
    /\ LockFrame

\* a thread that works on root r takes the root's lock for writing
WorkerLockRoot(t, r) ==
    /\ pc[t].op = "idle"
    /\ roots[r].status = "live"
    /\ RootWritable(t, r)
    /\ SetPc(t, [NoLocks EXCEPT !.op = "locked", !.root = r, !.lockroot = r,
                                !.lockmode = "w"])
    /\ LockFrame

\* with the root's lock held it calls remove_root_from_watched
WorkerCallRemove(t) ==
    /\ pc[t].op = "locked"
    /\ SetPc(t, [pc[t] EXCEPT !.op = "removing"])
    /\ LockFrame

\* remove_root_from_watched, from watched_roots.wlock() to its return
LockedRemove(t) ==
    /\ pc[t].op = "removing"
    /\ RegistryWritable(t)
    /\ LET res == remove_root_from_watched(watched, Heap, pc[t].root)
       IN  /\ watched' = res.map
           /\ SetHeap(res.h)
           /\ SetPc(t, [pc[t] EXCEPT !.op = "removed"])
    /\ UNCHANGED <<next_root_number, doc, loader, drain, children, buildLog, saved>>

\* the thread unlocks the root
WorkerUnlockRoot(t) ==
    /\ pc[t].op \in {"locked", "removed"}
    /\ SetPc(t, NoLocks)
    /\ LockFrame

\* w_root_stop_watch_all, the block under watched_roots.wlock()
LockedStopAll(t) ==
    /\ pc[t].op = "idle"
    /\ RegistryWritable(t)
    /\ watched # {}
    /\ SetHeap(StopEach(watched, Heap))
    /\ watched' = {}
    /\ SetPc(t, NoLocks)
    /\ UNCHANGED <<next_root_number, doc, loader, drain, children, buildLog, saved>>

\* w_find_enclosing_root: watched_roots.rlock()
FindLockRegistry(t) ==
    /\ pc[t].op = "idle"
    /\ RegistryReadable(t)
    /\ SetPc(t, [NoLocks EXCEPT !.op = "find", !.reg = "r"])
    /\ LockFrame

\* w_find_enclosing_root: the end of the rlock scope
FindUnlockRegistry(t) ==
    /\ pc[t].op = "find"
    /\ SetPc(t, NoLocks)
    /\ LockFrame

\* w_root_load_state: unlocked.root->triggers.wlock(), no other lock held
LoadLockTriggers(t, r) ==
    /\ pc[t].op = "idle"
    /\ roots[r].status = "live"
    /\ TriggersFree(t, r)
    /\ SetPc(t, [NoLocks EXCEPT !.op = "load", !.root = r, !.trig = r])
    /\ LockFrame

\* w_root_load_state: the end of the wlock scope
LoadUnlockTriggers(t) ==
    /\ pc[t].op = "load"
    /\ SetPc(t, NoLocks)
    /\ LockFrame

\* both paths watched, every thread holding a reference to each root
InitLock ==
    /\ watched = {<<PathOf(r), r>> : r \in RootIds \cap (1 .. Cardinality(WatchPaths))}
    /\ roots = [r \in RootIds |->
                  IF r <= Cardinality(WatchPaths)
                  THEN [WatchedRoot(PathOf(r), r) EXCEPT !.refcnt = 1 + Cardinality(Threads)]
                  ELSE UnbornRoot]
    /\ live_roots = Cardinality(RootIds \cap (1 .. Cardinality(WatchPaths)))
    /\ next_root_number = live_roots + 1
    /\ pc = [t \in Threads |-> NoLocks]
    /\ doc = EmptyDoc
    /\ loader = LoaderServing
    /\ drain = DrainIdle
    /\ children = {}
    /\ buildLog = {}
    /\ saved = NothingSaved

NextLock ==
    \/ \E t \in Threads : SaveLockRegistry(t)
    \/ \E t \in Threads : SaveNextRoot(t)
    \/ \E t \in Threads : SaveLockRoot(t)
    \/ \E t \in Threads : SaveLockTriggers(t)
    \/ \E t \in Threads : SaveUnlockRoot(t)
    \/ \E t \in Threads : SaveUnlockRegistry(t)
    \/ \E t \in Threads, r \in RootIds : WorkerLockRoot(t, r)
    \/ \E t \in Threads : WorkerCallRemove(t)
    \/ \E t \in Threads : LockedRemove(t)
    \/ \E t \in Threads : WorkerUnlockRoot(t)
    \/ \E t \in Threads : LockedStopAll(t)
    \/ \E t \in Threads : FindLockRegistry(t)
    \/ \E t \in Threads : FindUnlockRegistry(t)
    \/ \E t \in Threads, r \in RootIds : LoadLockTriggers(t, r)
    \/ \E t \in Threads : LoadUnlockTriggers(t)

SpecLock == InitLock /\ [][NextLock]_vars

\* ------------------------------------------------------------------ teardown

\* a thread inside the teardown of root r ("cancel") or inside its destructor
\* ("dtor"), about to run statement number step; n counts its own references
Tearing(r, n, in, step) == [op |-> "tearing", root |-> r, n |-> n, in |-> in, step |-> step]

\* w_root_cancel by a holder, up to the teardown it runs when it wins
TearCancel(t) ==
    /\ pc[t].op = "hold"
    /\ LET r == pc[t].root
       IN  IF w_root_cancel_won(Heap, r)
           THEN /\ SetHeap(w_root_cancel_mark(Heap, r))
                /\ SetPc(t, Tearing(r, pc[t].n, "cancel", 1))
           ELSE /\ SetPc(t, Done("cancel", r, pc[t].n, FALSE))
                /\ UNCHANGED <<roots, live_roots>>
    /\ UNCHANGED <<watched, next_root_number, doc, loader, drain, children, buildLog, saved>>

\* w_root_delref_raw by a holder, up to the delete it runs on the last reference
TearRelease(t) ==
    /\ pc[t].op = "hold"
    /\ LET r == pc[t].root
       IN  /\ roots' = [roots EXCEPT ![r].refcnt = @ - 1]
           /\ SetPc(t, IF roots[r].refcnt - 1 = 0 THEN Tearing(r, 0, "dtor", 1)
                       ELSE IF pc[t].n = 1 THEN Idle
                       ELSE Hold(r, pc[t].n - 1))
    /\ UNCHANGED <<watched, live_roots, next_root_number, doc, loader, drain, children,
                   buildLog, saved>>

\* the next statement of the teardown or destructor the thread is in
TearStep(t) ==
    /\ pc[t].op = "tearing"
    /\ LET r == pc[t].root
           steps == IF pc[t].in = "cancel" THEN TeardownSteps ELSE DtorSteps
           h == ApplyStep(Heap, r, steps[pc[t].step])
           last == pc[t].step = Len(steps)
       IN  /\ SetHeap(IF last /\ pc[t].in = "cancel"
                      THEN [h EXCEPT !.roots[r].cancel_true = @ + 1] ELSE h)
           /\ SetPc(t, IF ~last THEN [pc[t] EXCEPT !.step = @ + 1]
                       ELSE IF pc[t].in = "cancel" THEN Done("cancel", r, pc[t].n, TRUE)
                       ELSE Idle)
    /\ UNCHANGED <<watched, next_root_number, doc, loader, drain, children, buildLog, saved>>

\* the references the threads hold on root r at startup
HoldCount(hold, r) == Cardinality({t \in Threads : hold[t] = r})

\* initialised roots that have left the registry, each held by the threads that
\* were using it, with or without changes pending
InitTear ==
    \E hold \in [Threads -> RootIds], items \in SUBSET RootIds :
        /\ watched = {}
        /\ roots = [r \in RootIds |->
                      IF HoldCount(hold, r) = 0 THEN UnbornRoot
                      ELSE [WatchedRoot(PathOf(r), r) EXCEPT
                              !.refcnt = HoldCount(hold, r),
                              !.pending = IF r \in items THEN "items" ELSE "empty"]]
        /\ live_roots = Cardinality({r \in RootIds : HoldCount(hold, r) > 0})
        /\ next_root_number = MaxRoots + 1
        /\ pc = [t \in Threads |-> Hold(hold[t], 1)]
        /\ doc = EmptyDoc
        /\ loader = LoaderServing
        /\ drain = DrainIdle
        /\ children = {}
        /\ buildLog = {}
        /\ saved = NothingSaved

NextTear ==
    \/ \E t \in Threads : TearCancel(t)
    \/ \E t \in Threads : TearRelease(t)
    \/ \E t \in Threads : TearStep(t)
    \/ \E t \in Threads : Return(t)

SpecTear == InitTear /\ [][NextTear]_vars

\* ------------------------------------------------------------------ claims

\* C1: the registry never holds two entries for the same path, whatever the
\* interleaving of watch, unwatch, stop_all; a watch that finds the path
\* present inserts nothing.
C1_Uniqueness ==
    \A e1, e2 \in watched : e1[1] = e2[1] => e1 = e2

\* two watches of one path raced: the loser dropped its root, both hold the
\* single entry's root
C1_Witness ==
    \E t1, t2 \in Threads :
        /\ t1 # t2
        /\ pc[t1].op = "done" /\ pc[t1].call = "resolve" /\ pc[t1].ret = "lost_race"
        /\ pc[t2].op \in {"hold", "done"} /\ pc[t2].root = pc[t1].root
        /\ <<roots[pc[t1].root].root_path, pc[t1].root>> \in watched

\* the references a thread holds on root r
HeldBy(t, r) ==
    IF pc[t].op \in {"hold", "done", "cancel"} /\ pc[t].root = r THEN pc[t].n
    ELSE IF pc[t].op \in {"insert", "find"} /\ pc[t].root = r THEN 1
    ELSE 0

RECURSIVE SumHeld(_, _)
SumHeld(T, r) ==
    IF T = {} THEN 0
    ELSE LET t == CHOOSE x \in T : TRUE IN HeldBy(t, r) + SumHeld(T \ {t}, r)

\* the references outstanding on root r: the registry's and the threads'
Outstanding(r) ==
    (IF \E e \in watched : e[2] = r THEN 1 ELSE 0) + SumHeld(Threads, r)

\* C2: with add_ref and release balanced, a root is destructed exactly once,
\* by the release that brings the count to zero: the count always equals the
\* references outstanding, and the destructor has run once exactly when it is 0.
C2_RefcountConservation ==
    \A r \in RootIds :
        roots[r].status # "unborn" =>
            /\ roots[r].refcnt = Outstanding(r)
            /\ roots[r].dtors = (IF roots[r].refcnt = 0 THEN 1 ELSE 0)
            /\ (roots[r].status = "destructed") = (roots[r].refcnt = 0)

\* a root that was shared (registry, and a thread holding two references) has
\* been released by all and is destructed
C2_Witness ==
    \E r \in RootIds :
        /\ roots[r].status = "destructed"
        /\ roots[r].dtors = 1
        /\ roots[r].number = 0
        /\ roots[r].teardowns = 1
        /\ \E r2 \in RootIds : r2 # r /\ roots[r2].refcnt = 1 + MaxHold

\* C3: cancel tears a root down once: at most one call returns true, the
\* teardowns done by cancel are that call's, and a call that returned false
\* found the root already cancelled.
C3_CancelOnce ==
    /\ \A r \in RootIds :
        /\ roots[r].cancel_true <= 1
        /\ roots[r].teardowns - roots[r].dtors = roots[r].cancel_true
        /\ roots[r].cancelled =>
              \/ roots[r].cancel_true = 1
              \/ \E t \in Threads : pc[t].op = "cancel" /\ pc[t].root = r
    /\ \A t \in Threads :
          (pc[t].op = "done" /\ pc[t].call = "cancel") =>
              /\ roots[pc[t].root].cancelled
              /\ pc[t].ret => roots[pc[t].root].cancel_true = 1

\* the shutdown drain cancelled a root, and a holder's later cancel returned false
C3_Witness ==
    \E t \in Threads :
        /\ pc[t].op = "done" /\ pc[t].call = "cancel" /\ pc[t].ret = FALSE
        /\ roots[pc[t].root].cancel_true = 1
        /\ roots[pc[t].root].teardowns = 1
        /\ drain.pc = "poll"

\* C9: the root a registry read handed out (the find_enclosing scan, or the
\* lookup of a watch) stays alive until the caller releases its reference, also
\* when the entry is removed and the registry's reference released meanwhile.
C9_BorrowedRootAlive ==
    \A t \in Threads :
        (pc[t].op \in {"hold", "done", "cancel", "insert", "find"}
            /\ pc[t].root \in RootIds /\ HeldBy(t, pc[t].root) > 0) =>
                /\ roots[pc[t].root].status = "live"
                /\ roots[pc[t].root].refcnt >= HeldBy(t, pc[t].root)
                /\ roots[pc[t].root].dtors = 0

\* the entry was removed and the registry's reference released after the scan:
\* the caller's reference is the only one left
C9_Witness ==
    \E t \in Threads :
        /\ pc[t].op = "find"
        /\ roots[pc[t].root].refcnt = 1
        /\ \A e \in watched : e[2] # pc[t].root

\* what a remove step of thread t must do
RemoveStepOK(t) ==
    LET r == pc[t].root
        p == roots[r].root_path
    IN  IF <<p, r>> \in watched
        THEN /\ pc'[t].ret = TRUE
             /\ watched' = watched \ {<<p, r>>}
             /\ roots'[r].refcnt = roots[r].refcnt - 1
             /\ \A r2 \in RootIds \ {r} : roots'[r2] = roots[r2]
        ELSE /\ pc'[t].ret = FALSE
             /\ watched' = watched
             /\ roots' = roots
             /\ live_roots' = live_roots

\* C10: remove(root) erases the entry and releases the registry's reference,
\* returning true, only when the stored root is the one given; otherwise it
\* returns false and changes neither the registry nor any refcount.
C10_RemoveOnlyIdentical ==
    [][\A t \in Threads :
          (pc[t].op = "hold" /\ pc'[t].op = "done" /\ pc'[t].call = "remove")
              => RemoveStepOK(t)]_vars

\* a stale holder's remove returned false while the path is mapped to the
\* replacement root
C10_Witness ==
    \E t \in Threads :
        /\ pc[t].op = "done" /\ pc[t].call = "remove" /\ pc[t].ret = FALSE
        /\ \E e \in watched :
              e[1] = roots[pc[t].root].root_path /\ e[2] # pc[t].root

\* P is a component-aligned prefix of file: file is P, or P followed by a
\* separator and any remainder
AlignedPrefix(P, file) ==
    \/ file = P
    \/ \E n \in 0 .. MaxLen :
         /\ Len(file) = Len(P) + 1 + n
         /\ \A i \in 1 .. Len(P) : file[i] = P[i]
         /\ file[Len(P) + 1] = "/"

\* C5: find_enclosing finds a root exactly when a registered path is a
\* component-aligned prefix of the file; the prefix returned is such a path and
\* the relative path is what follows it and one separator (none when equal).
C5_PrefixMatch ==
    \A t \in Threads :
        (pc[t].op = "done" /\ pc[t].call = "find") =>
            LET res == pc[t].ret
                enclosing == {P \in MapPaths(watched) : AlignedPrefix(P, res.file)}
            IN  /\ res.found = (enclosing # {})
                /\ res.found =>
                     /\ res.prefix \in enclosing
                     /\ res.relnull = (res.file = res.prefix)
                     /\ ~res.relnull =>
                          res.file = res.prefix \o <<"/">> \o res.relpath

\* nested roots /a and /a/a, a file below both: the inner root was returned
\* with the file's last component as the relative path
C5_Witness ==
    /\ pc["t1"].op = "done" /\ pc["t1"].call = "find"
    /\ pc["t1"].ret.found
    /\ pc["t1"].ret.file = <<"/", "a", "/", "a", "/">> 
    /\ pc["t1"].ret.prefix = <<"/", "a", "/", "a">>
    /\ pc["t1"].ret.relpath = << >>
    /\ ~pc["t1"].ret.relnull
    /\ <<"/", "a">> \in MapPaths(watched)

RECURSIVE ProcessedTrigs(_, _)
ProcessedTrigs(p, i) ==
    IF i < 1 THEN << >>
    ELSE ProcessedTrigs(p, i - 1) \o
           (IF i \notin loader.skipped /\ doc.watched[i].path = p
            THEN doc.watched[i].triggers ELSE << >>)

Usable(def) ==
    /\ ~HasKey(def, "rules")
    /\ HasKey(def, "name")
    /\ HasKey(def, "command")

\* the commands a trigger list must leave installed: for each name, the last
\* usable definition under it
Installed(trigs) ==
    {[triggername |-> trigs[j].name, definition |-> trigs[j], current_proc |-> 0] :
        j \in {k \in 1 .. Len(trigs) :
                 /\ Usable(trigs[k])
                 /\ \A m \in (k + 1) .. Len(trigs) :
                       Usable(trigs[m]) => trigs[m].name # trigs[k].name}}

\* C7: a definition with the key "rules" is passed over by the load: it is not
\* installed, not handed to the builder, the load still succeeds, the entry's
\* root is registered and the other definitions of the entry are installed.
C7_LegacySkip ==
    /\ \A e \in watched :
          /\ roots[e[2]].triggers = Installed(ProcessedTrigs(e[1], loader.i - 1))
          /\ \A c \in roots[e[2]].triggers : ~HasKey(c.definition, "rules")
    /\ \A d \in buildLog : ~HasKey(d, "rules")
    /\ \A i \in 1 .. (loader.i - 1) :
          i \notin loader.skipped =>
              \E e \in watched :
                  e[1] = doc.watched[i].path /\ roots[e[2]].status = "live"
    /\ (loader.pc = "done" /\ doc.kind = "array") => loader.ret = TRUE

\* an entry whose triggers are a legacy definition followed by a usable one was
\* loaded: only the usable one was built and installed
C7_Witness ==
    /\ loader.pc = "done"
    /\ doc.kind = "array" /\ Len(doc.watched) = 1
    /\ doc.watched[1].triggers = <<DefLegacy, DefT>>
    /\ buildLog = {DefT}
    /\ \E e \in watched :
          /\ e[1] = doc.watched[1].path
          /\ {c.definition : c \in roots[e[2]].triggers} = {DefT}

\* C4: at most one invocation of a trigger's command runs at a time: a trigger
\* has a running child exactly when its process id is recorded, that child is
\* the only one, and the recorded id is the child's.
C4_AtMostOneRun ==
    \A e \in watched :
        \A c \in roots[e[2]].triggers :
            LET running == {x \in children :
                              x.root = e[2] /\ x.name = c.triggername}
            IN  /\ Cardinality(running) <= 1
                /\ (c.current_proc = 0) = (running = {})
                /\ \A x \in running : x.pid = c.current_proc

\* both triggers of a root have a child running, each recorded under its own id
C4_Witness ==
    \E e \in watched :
        /\ Cardinality(roots[e[2]].triggers) = 2
        /\ \A c \in roots[e[2]].triggers : c.current_proc # 0
        /\ Cardinality({x \in children : x.root = e[2]}) = 2

\* C8: the shutdown drain always returns: it leaves the poll loop when the
\* live-root counter reads zero or, failing that, once more than the timeout
\* has elapsed, and a turn of the loop ends it only in those two cases.
C8_DrainTerminates ==
    /\ <>(drain.pc = "done")
    /\ [][(drain.pc = "poll" /\ drain'.pc = "done")
             => (live_roots = 0 \/ drain.elapsed > DrainTimeout)]_vars

\* the drain returned on its deadline with a root still live and held
C8_Witness ==
    /\ drain.pc = "done"
    /\ drain.residual > 0
    /\ live_roots = drain.residual
    /\ drain.elapsed = DrainTimeout + 1
    /\ \E t \in Threads : pc[t].op = "hold"

\* C14: the destructor tears down only a root that was not cancelled, so that
\* over a root's lifetime the teardown, and with it the watcher's root_dtor
\* hook, runs at most once.
C14_TeardownOnce ==
    \A r \in RootIds :
        /\ roots[r].teardowns <= 1
        /\ roots[r].hooks <= 1
        /\ \A t \in Threads :
              (pc[t].op = "tearing" /\ pc[t].root = r /\ pc[t].in = "dtor"
                  /\ pc[t].step > 1)
                  => ~roots[r].cancelled

\* C15: every teardown is ordered: the view's root directory is destroyed
\* before the watcher's hook runs, the watcher is detached before the
\* symlink-target queue or the primary queue is destroyed, and when the view is
\* torn down the primary queue has been drained and not destroyed.
C15_TeardownOrder ==
    \A r \in RootIds :
        /\ (roots[r].watcher_ops /\ ~roots[r].watcher) => ~roots[r].root_dir
        /\ roots[r].symlinks = "destroyed" => (roots[r].watcher_ops => ~roots[r].watcher)
        /\ roots[r].pending = "destroyed" =>
              /\ roots[r].watcher_ops => ~roots[r].watcher
              /\ ~roots[r].root_dir
        /\ (roots[r].status = "live" /\ roots[r].watcher /\ ~roots[r].root_dir) =>
              roots[r].pending = "empty"

\* a root that had changes pending is in its destructor, its primary queue just
\* destroyed, after the one call of the watcher's hook
C15_Witness ==
    \E t \in Threads :
        /\ pc[t].op = "tearing" /\ pc[t].in = "dtor"
        /\ roots[pc[t].root].pending = "destroyed"
        /\ roots[pc[t].root].symlinks = "live"
        /\ roots[pc[t].root].hooks = 1
        /\ ~roots[pc[t].root].watcher
        /\ \E t2 \in Threads :
              /\ pc[t2].op = "tearing" /\ pc[t2].in = "cancel"
              /\ roots[pc[t2].root].pending = "empty"
              /\ ~roots[pc[t2].root].root_dir
              /\ roots[pc[t2].root].watcher

\* the paths a state document reports as watched
DocPaths(d) == {d.watched[i].path : i \in DOMAIN d.watched}

Registered(map, r) == \E e \in map : e[2] = r

\* what the block of stop_all under the write lock must do
StopStepOK(t) ==
    /\ watched' = {}
    /\ pc'[t].stopped = MapPaths(watched)
    /\ \A e \in watched :
          /\ roots'[e[2]].cancelled
          /\ roots'[e[2]].refcnt = roots[e[2]].refcnt - 1
    /\ \A r \in RootIds : ~Registered(watched, r) => roots'[r] = roots[r]

\* C11 as stated: stop_all empties the registry, returns the paths registered
\* when it took the write lock, cancels and releases each of their roots, and
\* when it returns, after the save, the registry is empty and the saved document
\* reports none of the stopped paths.
C11_StopAllAtomic ==
    [][\A t \in Threads :
          /\ (pc[t].op = "idle" /\ pc'[t].op = "save") => StopStepOK(t)
          /\ (pc[t].op = "save" /\ pc'[t].op = "idle") =>
                /\ watched' = {}
                /\ DocPaths(doc') \cap pc[t].stopped = {}]_vars

\* C11 amended: the registry is empty when stop_all releases the write lock,
\* not necessarily when it returns; the save runs after that, so the document
\* reports exactly the roots registered since, none of them a stopped root.
C11_StopAllDrains ==
    [][\A t \in Threads :
          /\ (pc[t].op = "idle" /\ pc'[t].op = "save") => StopStepOK(t)
          /\ (pc[t].op = "save" /\ pc'[t].op = "idle") =>
                /\ DocPaths(doc') = MapPaths(watched)
                /\ \A e \in watched : e[2] \notin pc[t].drained
                /\ \A r \in pc[t].drained : roots[r].cancelled]_vars

\* stop_all stopped both watched roots, one of them still held by the other
\* thread, and has saved a document that reports nothing watched
C11_Witness ==
    \E t \in Threads :
        /\ pc[t].op = "idle"
        /\ doc.kind = "array" /\ doc.watched = << >>
        /\ watched = {}
        /\ \A r \in RootIds : roots[r].cancelled /\ roots[r].cancel_true = 1
        /\ \E t2 \in Threads :
              /\ pc[t2].op = "hold"
              /\ roots[pc[t2].root].status = "live"
              /\ roots[pc[t2].root].refcnt = 1

\* C19: the registry's reference to a root is released exactly once per entry:
\* the step that erases the entry releases one reference, a remove of a root
\* that is no entry releases nothing, the count of a live root is the
\* registry's reference plus the holders', and a root that is an entry is alive.
C19_RegistryRefOnce ==
    /\ [](\A r \in RootIds :
            /\ Registered(watched, r) => roots[r].status = "live"
            /\ roots[r].status = "live" =>
                  roots[r].refcnt = (IF Registered(watched, r) THEN 1 ELSE 0)
                                      + SumHeld(Threads, r))
    /\ [][\A r \in RootIds :
            /\ (Registered(watched, r) /\ ~Registered(watched', r)) =>
                  roots'[r].refcnt = roots[r].refcnt - 1
            /\ \A t \in Threads :
                  (pc[t].op = "hold" /\ pc[t].root = r /\ pc'[t].op = "done"
                      /\ pc'[t].call = "remove" /\ ~Registered(watched, r))
                      => (roots' = roots /\ watched' = watched /\ pc'[t].ret = FALSE)]_vars

\* stop_all erased a held root's entry, the path was watched again, and the
\* stale holder's remove then released nothing
C19_Witness ==
    \E t \in Threads :
        /\ pc[t].op = "done" /\ pc[t].call = "remove" /\ pc[t].ret = FALSE
        /\ roots[pc[t].root].cancelled
        /\ roots[pc[t].root].status = "live"
        /\ roots[pc[t].root].refcnt = 1
        /\ \E e \in watched :
              /\ e[1] = roots[pc[t].root].root_path
              /\ e[2] # pc[t].root
              /\ roots[e[2]].refcnt >= 1

\* the definitions a state document holds
DocDefsOf(d) ==
    UNION {{d.watched[i].triggers[j] : j \in DOMAIN d.watched[i].triggers} :
              i \in DOMAIN d.watched}

FailsToBuild(def) == ~HasKey(def, "rules") /\ ~w_build_trigger_from_def(def).ok

\* C12 as stated: a definition that failed to build during the load stays in
\* the persisted document from then on, so that any later reload meets it again.
C12_FailedBuildStays ==
    [][\A d \in buildLog :
          (FailsToBuild(d) /\ d \in DocDefsOf(doc)) => d \in DocDefsOf(doc')]_vars

\* C12 amended: the load installs no definition that fails to build and leaves
\* the document as it found it, so a reload of that document hands the
\* definition to the builder again; only a state save rewrites the document.
C12_FailedBuildKept ==
    /\ [](\A e \in watched : \A c \in roots[e[2]].triggers : ~FailsToBuild(c.definition))
    /\ []((loader.pc = "done" /\ doc.kind = "array") =>
            \A i \in DOMAIN doc.watched :
                i \notin loader.skipped =>
                    \A j \in DOMAIN doc.watched[i].triggers :
                        FailsToBuild(doc.watched[i].triggers[j]) =>
                            doc.watched[i].triggers[j] \in buildLog)
    /\ [][loader.pc \in {"idle", "loop"} => doc' = doc]_vars

\* a load has finished on a document with a definition that does not build:
\* the root is registered with the other definition alone, the document still
\* holds both
C12_Witness ==
    /\ loader.pc = "done"
    /\ doc.kind = "array" /\ Len(doc.watched) = 1
    /\ doc.watched[1].triggers = <<DefNoName, DefT>>
    /\ DefNoName \in buildLog
    /\ \E e \in watched :
          /\ e[1] = doc.watched[1].path
          /\ {c.definition : c \in roots[e[2]].triggers} = {DefT}

\* a step of thread t that runs with the registry lock held: the block of
\* stop_all, or remove_root_from_watched
RegistryLockedStep(t) ==
    \/ pc[t].op = "idle" /\ pc'[t].op = "save"
    \/ pc[t].op = "hold" /\ pc'[t].op = "done" /\ pc'[t].call = "remove"

\* C13: the watcher backend is never detached (its root teardown hook never
\* called) while the registry lock is held: not in remove, not in stop_all,
\* not in the loop of the shutdown drain.
C13_NoDetachUnderLock ==
    [][((\E t \in Threads : RegistryLockedStep(t))
            \/ (drain.pc = "idle" /\ drain'.pc = "poll"))
          => \A r \in RootIds : roots'[r].hooks = roots[r].hooks]_vars

\* C16: the live-root counter equals the number of roots constructed and not
\* yet destructed, whatever their reference counts and whether or not they are
\* registered; it is never negative.
C16_LiveRootCount ==
    /\ live_roots = Cardinality({r \in RootIds : roots[r].status = "live"})
    /\ live_roots >= 0

\* one creation failed and its root was destructed, the other root has left the
\* registry and is still held: the counter reads one
C16_Witness ==
    /\ live_roots = 1
    /\ watched = {}
    /\ \E r \in RootIds :
          roots[r].status = "destructed" /\ ~roots[r].watcher_ops /\ roots[r].dtors = 1
    /\ \E r \in RootIds, t \in Threads :
          /\ roots[r].status = "live" /\ roots[r].refcnt = 1
          /\ pc[t].op = "hold" /\ pc[t].root = r

\* C17: a creation that fails gives the caller no root, releases the partly
\* built root so that it is destructed exactly once, leaves the live-root
\* counter, the registry and every other root as they were, and consumes no
\* root number; numbers go to successful creations only.
C17_FailedCreate ==
    /\ [](next_root_number = 1 + Cardinality({r \in RootIds : roots[r].watcher_ops}))
    /\ [][\A t \in Threads :
            (pc[t].op = "new" /\ pc'[t].op = "idle") =>
                LET r == MinOf(Unborn)
                IN  /\ roots'[r].status = "destructed"
                    /\ roots'[r].dtors = 1
                    /\ roots'[r].refcnt = 0
                    /\ roots'[r].number = 0
                    /\ \A r2 \in RootIds \ {r} : roots'[r2] = roots[r2]
                    /\ \A t2 \in Threads \ {t} : pc'[t2] = pc[t2]
                    /\ live_roots' = live_roots
                    /\ watched' = watched
                    /\ next_root_number' = next_root_number]_vars

\* the first creation failed: its root is destructed, torn down once without
\* the watcher's hook, and root number 1 went to the creation that followed
C17_Witness ==
    /\ roots[1].status = "destructed"
    /\ ~roots[1].watcher_ops
    /\ roots[1].dtors = 1 /\ roots[1].teardowns = 1 /\ roots[1].hooks = 0
    /\ roots[2].status = "live" /\ roots[2].number = 1
    /\ <<roots[2].root_path, 2>> \in watched
    /\ live_roots = 1

\* C18: the load processes every entry whatever happened to the earlier ones:
\* an entry whose root cannot be resolved is skipped, a trigger that fails to
\* build is skipped and the others of the entry installed, a new root that fails
\* to start is cancelled; each resolved root is left with the registry's
\* reference alone and the load returns true. It returns false, having changed
\* nothing, only for a "watched" that is not an array.
C18_LoadContinues ==
    /\ \A i \in 1 .. (loader.i - 1) :
          IF i \in loader.skipped
          THEN i \notin loader.unstarted
          ELSE \E e \in watched :
                  /\ e[1] = doc.watched[i].path
                  /\ roots[e[2]].status = "live"
                  /\ roots[e[2]].refcnt = 1
                  /\ i \in loader.unstarted => roots[e[2]].cancelled
    /\ \A e \in watched :
          roots[e[2]].triggers = Installed(ProcessedTrigs(e[1], loader.i - 1))
    /\ \A r \in RootIds :
          roots[r].status = "live" => (Registered(watched, r) /\ roots[r].refcnt = 1)
    /\ loader.pc = "done" =>
          /\ loader.ret = (doc.kind # "notarray")
          /\ doc.kind = "array" => loader.i = Len(doc.watched) + 1
          /\ doc.kind # "array" =>
                (watched = {} /\ live_roots = 0 /\ \A r \in RootIds : roots[r] = UnbornRoot)

\* the first entry's root could not be created, the second entry was loaded all
\* the same: its new root failed to start and is cancelled, with the trigger
\* that built installed
C18_Witness ==
    /\ loader.pc = "done" /\ loader.ret = TRUE
    /\ Len(doc.watched) = 2
    /\ doc.watched[1].path = doc.watched[2].path
    /\ doc.watched[2].triggers = <<DefNoName, DefT>>
    /\ loader.skipped = {1}
    /\ loader.unstarted = {2}
    /\ \E e \in watched :
          /\ e[1] = doc.watched[2].path
          /\ roots[e[2]].cancelled
          /\ roots[e[2]].refcnt = 1
          /\ {c.definition : c \in roots[e[2]].triggers} = {DefT}
    /\ \E r \in RootIds : roots[r].status = "destructed"

\* thread t cannot go on until thread u gives up a lock
WaitsFor(t, u) ==
    /\ t # u
    /\ \/ pc[t].op = "removing" /\ pc[u].reg # "none"
       \/ pc[t].op = "save_wait" /\ pc[u].lockroot = pc[t].root /\ pc[u].lockmode = "w"
       \/ pc[t].op = "save_root" /\ pc[u].trig = pc[t].root

\* C20: no deadlock is reachable among save, load, remove, stop_all and
\* find_enclosing: no two threads ever wait for a lock the other holds, also
\* when remove is called by a thread that holds the root's lock while a save
\* holds the registry lock and waits for that root's lock.
C20_NoDeadlock ==
    \A t, u \in Threads : ~(WaitsFor(t, u) /\ WaitsFor(u, t))

====
